---------------------------- MODULE Spec2Model ----------------------------
(***************************************************************************)
(* Liveness-check capture flow of inferno_exp (node_app/public/mediapipe.js *)
(* and its near-duplicate copies): the polling loop predictWebcam, the      *)
(* frame-accumulation validator handleDetections, and the geometric         *)
(* predicates isFaceInROI and isFacingForward.                              *)
(*                                                                          *)
(* Numbers.  JavaScript doubles are held as scaled integers:                *)
(*   - a score or a threshold s is held as 100 * s (0.90 -> 90);            *)
(*   - a normalised keypoint coordinate is held in units of 1/64 of the     *)
(*     frame, so every coordinate and every difference of two coordinates   *)
(*     is exactly representable as a double and the double quotient         *)
(*     min/max compares with the threshold as the exact quotient does;      *)
(*   - the ROI fractions are held as percentages (0.20 -> 20);              *)
(*   - a pixel length L is held as L * den, den = 200 * videoHeight.        *)
(* Math.round((c / N) * 100) is computed on doubles; where the double       *)
(* product falls just below an exact half the code rounds down, and those   *)
(* pairs are listed in DoubleBelowHalf.                                     *)
(***************************************************************************)
EXTENDS Integers, Sequences, FiniteSets, TLC

VARIABLES
    CONFIG,                    \* the CONFIG object of the copy that runs
    variant,                   \* which copy runs: its ROI policy
    faceDetector,              \* let faceDetector
    startup,                   \* how far main and startWebcam have come
    lastVideoTime,             \* let lastVideoTime = -1
    consecutiveFramesCounter,  \* let consecutiveFramesCounter = 0
    appState,                  \* let appState = 'DETECTING'
    currentTime,               \* DOM.video.currentTime, in frames
    rafCallbacks,              \* predictWebcam invocations queued by the browser
    loadedEvents,              \* 'loadeddata' events dispatched so far
    detections,                \* the array last handed to handleDetections
    decision,                  \* the exit path handleDetections last took
    currentStatus,             \* the STATUS entry last put on screen
    savedFrames,               \* calls of saveFrame so far
    recent,                    \* history: the last three decisions
    run,                       \* history: length of the current run of qualifying frames
    skippedPoll,               \* history: the last poll found the frame on screen already evaluated
    canvas,                    \* DOM.canvas: whether a snapshot can be drawn and exported
    srcObject,                 \* DOM.video.srcObject
    videoDisplay,              \* DOM.video.style.display
    snapshot,                  \* what saveFrame drew and downloaded
    liveView,                  \* DOM.liveView: the elements appended to it, in order
    detectionChildren,         \* let detectionChildren = []
    invalidText                \* STATUS.INVALID.text

vars == <<CONFIG, variant, faceDetector, startup, lastVideoTime, consecutiveFramesCounter, appState,
          currentTime, rafCallbacks, loadedEvents, detections, decision,
          currentStatus, savedFrames, recent, run, skippedPoll, canvas,
          srcObject, videoDisplay, snapshot, liveView, detectionChildren,
          invalidText>>

\* The video element and the snapshot.
pageVars == <<srcObject, videoDisplay, snapshot>>

\* The overlays.
overlayVars == <<liveView, detectionChildren>>

---------------------------------------------------------------------------
(* Bounds of the model.                                                    *)

\* Largest requiredConsecutiveFrames of the general specification.
MaxRequired == 3
\* Video frames presented in one session of the general specification.
MaxTime == 3
\* Video frames that may go by between two polls.
MaxLag == 2
\* 'loadeddata' events dispatched in one session.
MaxLoadedData == 1
\* Largest requiredConsecutiveFrames of the progress specification.
MaxProgressFrames == 200
\* 'loadeddata' events, and so polling loops, of the loops specification.
MaxLoops == 2
\* Bounding-box origins of the region specification: 0, 5, .., 5 * BoxSteps.
BoxSteps == 12
\* Keypoint abscissas of the pose specification range over 0 .. PoseGrid.
PoseGrid == 2

---------------------------------------------------------------------------
(* Configuration.                                                          *)

\* CONFIG.minScore: 0.90
minScore == 90
\* CONFIG.frontalThreshold: 0.7
frontalThreshold == 70
\* CONFIG.roi of the ROI copies, in percent.
roi == [x |-> 20, y |-> 15, width |-> 60, height |-> 70]
\* CONFIG.requiredConsecutiveFrames as shipped.
ShippedRequiredFrames == {60, 120}

\* The copies: "full" is mediapipe.js (box fully inside the ROI), "center" is
\* the first file of part_001 (box centre inside the ROI), "none" is part_000
\* and the second file of part_001 (no ROI).
Variants == {"full", "center", "none"}

\* CONFIG.showScore as shipped.
showScore == FALSE

ConfigsShowing(frames, thresholds, shows) ==
    [minScore : {minScore}, requiredConsecutiveFrames : frames,
     frontalThreshold : thresholds, showScore : shows]

ConfigsWith(frames, thresholds) ==
    ConfigsShowing(frames, thresholds, {showScore})

Configs(frames) == ConfigsWith(frames, {frontalThreshold})

---------------------------------------------------------------------------
(* The video element's geometry: a 80x50 stream shown cover-fit in a        *)
(* 100x100 element, so scale = 2 and offsetX = -30.                         *)

videoWidth == 80
videoHeight == 50
clientWidth == 100
clientHeight == 100

\* Common denominator of the pixel arithmetic.
den == 200 * videoHeight
\* scale = clientHeight / videoHeight, times den.
scaleD == 200 * clientHeight
\* offsetX = (clientWidth - videoWidth * scale) / 2, times den.
offsetXD == 100 * (clientWidth * videoHeight - videoWidth * clientHeight)

---------------------------------------------------------------------------
(* What the detector can report for a frame.                               *)

Scores == {50, 90, 95}

\* Bounding boxes in source pixels.  In the mirrored element: BoxInside spans
\* 30..70 x 20..70, BoxEdge 30..90 x 20..70 (centre 60 inside, right edge
\* outside), BoxOutside 90..130 x 20..70.
BoxInside == [originX |-> 30, originY |-> 10, width |-> 20, height |-> 25]
BoxEdge == [originX |-> 20, originY |-> 10, width |-> 30, height |-> 25]
BoxOutside == [originX |-> 0, originY |-> 10, width |-> 20, height |-> 25]
Boxes == {BoxInside, BoxEdge, BoxOutside}

Point(px, py) == [x |-> px, y |-> py]
\* leftEye, rightEye, noseTip.
KpSymmetric == <<Point(20, 20), Point(40, 20), Point(30, 30)>>
KpAtThreshold == <<Point(23, 20), Point(40, 20), Point(30, 30)>>
KpTurned == <<Point(28, 20), Point(40, 20), Point(30, 30)>>
KpDegenerate == <<Point(30, 20), Point(40, 20), Point(30, 30)>>
Keypoints == {KpSymmetric, KpAtThreshold, KpTurned, KpDegenerate}

Detection == [score : Scores, boundingBox : Boxes, keypoints : Keypoints]

\* detectForVideo(...)?.detections || []
Detector == {<<>>} \cup {<<d>> : d \in Detection}

---------------------------------------------------------------------------
(* The geometric predicates.                                               *)

Abs(n) == IF n < 0 THEN -n ELSE n
Min(a, b) == IF a < b THEN a ELSE b
Max(a, b) == IF a > b THEN a ELSE b

\* Mutant of ratioAbove: the comparison is turned round.
ratioBelow(lo, hi, threshold) == 100 * lo < threshold * hi

\* Mutant of ratioAbove: a ratio equal to the threshold passes.
ratioAtLeast(lo, hi, threshold) == 100 * lo >= threshold * hi

\* ratio > CONFIG.frontalThreshold, for ratio = lo / hi with hi > 0.
ratioAbove(lo, hi, threshold) == 100 * lo > threshold * hi

\* Mutant of isFacingForward: a zero distance passes.
isFacingForwardFailOpen(keypoints) ==
    LET distNoseToLeftEye == Abs(keypoints[3].x - keypoints[1].x)
        distNoseToRightEye == Abs(keypoints[3].x - keypoints[2].x)
    IN  IF distNoseToLeftEye = 0 \/ distNoseToRightEye = 0
        THEN TRUE
        ELSE 100 * Min(distNoseToLeftEye, distNoseToRightEye)
                 > CONFIG.frontalThreshold
                   * Max(distNoseToLeftEye, distNoseToRightEye)

isFacingForward(keypoints) ==
    LET leftEye == keypoints[1]
        rightEye == keypoints[2]
        noseTip == keypoints[3]
        distNoseToLeftEye == Abs(noseTip.x - leftEye.x)
        distNoseToRightEye == Abs(noseTip.x - rightEye.x)
    IN  IF distNoseToLeftEye = 0 \/ distNoseToRightEye = 0
        THEN FALSE
        ELSE ratioAbove(Min(distNoseToLeftEye, distNoseToRightEye),
                        Max(distNoseToLeftEye, distNoseToRightEye),
                        CONFIG.frontalThreshold)

\* mediapipe.js: the mirrored, scaled box lies fully inside the ROI.
isFaceInROIFull(detection) ==
    LET scaledWidth == detection.boundingBox.width * scaleD
        scaledHeight == detection.boundingBox.height * scaleD
        scaledOriginX == detection.boundingBox.originX * scaleD
        scaledOriginY == detection.boundingBox.originY * scaleD
        faceLeft == clientWidth * den - scaledOriginX - scaledWidth - offsetXD
        faceTop == scaledOriginY
        faceBottom == scaledOriginY + scaledHeight
        faceRight == faceLeft + scaledWidth
        roiLeft == clientWidth * roi.x * (den \div 100)
        roiTop == clientHeight * roi.y * (den \div 100)
        roiRight == clientWidth * (roi.x + roi.width) * (den \div 100)
        roiBottom == clientHeight * (roi.y + roi.height) * (den \div 100)
    IN  /\ faceLeft >= roiLeft
        /\ faceRight <= roiRight
        /\ faceTop >= roiTop
        /\ faceBottom <= roiBottom

\* Mutant of isFaceInROICenter: the origin corner of the box is tested, not
\* its centre.
isFaceInROIOrigin(detection) ==
    LET cornerX == clientWidth * den
                   - detection.boundingBox.originX * scaleD - offsetXD
        cornerY == detection.boundingBox.originY * scaleD
        roiX == clientWidth * roi.x * (den \div 100)
        roiY == clientHeight * roi.y * (den \div 100)
        roiW == clientWidth * roi.width * (den \div 100)
        roiH == clientHeight * roi.height * (den \div 100)
    IN  /\ cornerX > roiX
        /\ cornerX < roiX + roiW
        /\ cornerY > roiY
        /\ cornerY < roiY + roiH

\* part_001: the centre of the mirrored, scaled box lies strictly inside the ROI.
isFaceInROICenter(detection) ==
    LET boxCenterX == clientWidth * den
                      - (2 * detection.boundingBox.originX + detection.boundingBox.width)
                        * (scaleD \div 2)
                      - offsetXD
        boxCenterY == (2 * detection.boundingBox.originY + detection.boundingBox.height)
                      * (scaleD \div 2)
        roiX == clientWidth * roi.x * (den \div 100)
        roiY == clientHeight * roi.y * (den \div 100)
        roiW == clientWidth * roi.width * (den \div 100)
        roiH == clientHeight * roi.height * (den \div 100)
    IN  /\ boxCenterX > roiX
        /\ boxCenterX < roiX + roiW
        /\ boxCenterY > roiY
        /\ boxCenterY < roiY + roiH

\* Mutant of isFaceInROI: only the vertical extent is tested.
isFaceInROIVerticalOnly(detection) ==
    LET boxCenterY == (2 * detection.boundingBox.originY + detection.boundingBox.height)
                      * (scaleD \div 2)
        roiY == clientHeight * roi.y * (den \div 100)
        roiH == clientHeight * roi.height * (den \div 100)
    IN  boxCenterY > roiY /\ boxCenterY < roiY + roiH

\* The isFaceInROI of the copy that runs.
isFaceInROI(detection) ==
    IF variant = "full" THEN isFaceInROIFull(detection)
    ELSE isFaceInROICenter(detection)

\* Whether the copy that runs tests the ROI at all (CONFIG.roi exists).
hasROI == variant # "none"

---------------------------------------------------------------------------
(* The validator.                                                          *)

\* Pairs <<N, c>>, N <= 256, whose exact 100 * c / N is k + 1/2 while the
\* double (c / N) * 100 is just below it, so that Math.round gives k.
DoubleBelowHalf ==
    {<<40, 23>>, <<80, 46>>, <<120, 69>>, <<160, 92>>, <<200, 29>>,
     <<200, 57>>, <<200, 113>>, <<200, 115>>, <<240, 138>>}

\* Mutants of progressOf: Math.floor, Math.ceil, and Math.round(c / N) * 100.
progressFloor(c, n) == (100 * c) \div n
progressCeil(c, n) == (100 * c + n - 1) \div n
progressRoundedFirst(c, n) == ((2 * c + n) \div (2 * n)) * 100

\* Math.round((consecutiveFramesCounter / CONFIG.requiredConsecutiveFrames) * 100)
progressOf(c, n) ==
    LET halfUp == (200 * c + n) \div (2 * n)
    IN  IF <<n, c>> \in DoubleBelowHalf THEN halfUp - 1 ELSE halfUp

\* Mutant of isConfident: score >= CONFIG.minScore.
isConfidentNonStrict(score) == score >= CONFIG.minScore

\* score > CONFIG.minScore
isConfident(score) == score > CONFIG.minScore

\* Mutants of the resets: the counter is kept, or decays by one.
counterKept(c) == c
counterKeptOnInvalid(c) == c
counterDecays(c) == IF c > 0 THEN c - 1 ELSE 0
\* Mutant of reachedRequired: off by one.
reachedRequiredEarly(c) == c >= CONFIG.requiredConsecutiveFrames - 1

\* consecutiveFramesCounter = 0, no detection or face outside the ROI
counterAfterNoFace(c) == 0
\* consecutiveFramesCounter = 0, low score or not frontal
counterAfterInvalid(c) == 0
\* Mutant of counterAfterValid: the counter stalls at 1.
counterStalls(c) == IF c = 0 THEN 1 ELSE c

\* consecutiveFramesCounter++
counterAfterValid(c) == c + 1

\* Mutant of reachedRequired: the run has to exceed the required length.
reachedRequiredLate(c) == c > CONFIG.requiredConsecutiveFrames

\* consecutiveFramesCounter >= CONFIG.requiredConsecutiveFrames
reachedRequired(c) == c >= CONFIG.requiredConsecutiveFrames

\* The exit paths of handleDetections.
NoDecision == [kind |-> "None", progress |-> -1]
NoFace == [kind |-> "NoFace", progress |-> -1]
OutOfRegion == [kind |-> "OutOfRegion", progress |-> -1]
Invalid == [kind |-> "Invalid", progress |-> -1]
Validating(p) == [kind |-> "Validating", progress |-> p]
Accepted == [kind |-> "Accepted", progress |-> -1]

\* A status text, as the pieces the showScore code looks for: a word, or the
\* number of a score suffix.
Word(w) == [t |-> w, v |-> 0]

\* STATUS.INVALID.text as written in the source.
STATUS_INVALID == <<Word("Enderece su rostro")>>

\* Math.round(score * 100): scores are held in hundredths, and the double
\* nearest k/100 times 100 is within 1e-13 of k.
roundedPercent(score) == (2 * score + 1) \div 2

\* ` (Score: ${Math.round(score * 100)}%)`
scoreSuffix(score) ==
    <<Word(" ("), Word("Score:"), [t |-> "number", v |-> roundedPercent(score)],
      Word("%)")>>

\* text.includes('Score:')
includesScore(text) == \E i \in 1 .. Len(text) : text[i].t = "Score:"

\* Mutant of splitAtScore: the text is kept whole.
splitKeepsAll(text) == text

\* text.split(' (Score:')[0]: the text before the first ' (Score:'.
splitAtScore(text) ==
    LET at == {i \in 1 .. Len(text) - 1 :
                  text[i].t = " (" /\ text[i + 1].t = "Score:"}
    IN  IF at = {} THEN text
        ELSE SubSeq(text, 1, (CHOOSE i \in at : \A j \in at : i <= j) - 1)

\* if (CONFIG.showScore) { ... }: an old suffix is cut off and the score of
\* this frame is appended.
withScore(text, score) ==
    IF CONFIG.showScore
    THEN (IF includesScore(text) THEN splitAtScore(text) ELSE text)
         \o scoreSuffix(score)
    ELSE text

\* An element created by document.createElement: its class and, to tell the
\* elements apart, the video time and the place at which it was created.
Element(class, n) == [class |-> class, frame |-> currentTime, n |-> n]

\* drawROI, called by main before its first await in the copies with a ROI.
roiBox == [class |-> "roi-box", frame |-> -1, n |-> 0]

Range(seq) == {seq[i] : i \in 1 .. Len(seq)}

\* parent.removeChild(child), for a child of the parent.
removeChild(view, child) == SelectSeq(view, LAMBDA other : other # child)

\* for (let child of detectionChildren) DOM.liveView.removeChild(child):
\* removeChild throws for an element that is not a child of liveView, and
\* the loop ends there.
RECURSIVE removeChildren(_, _)
removeChildren(view, children) ==
    IF children = <<>> THEN [liveView |-> view, thrown |-> FALSE]
    ELSE IF Head(children) \notin Range(view)
    THEN [liveView |-> view, thrown |-> TRUE]
    ELSE removeChildren(removeChild(view, Head(children)), Tail(children))

\* Mutant of clearDetections: detectionChildren = [] is forgotten.
clearDetectionsKeepsList(view, children) ==
    LET removed == removeChildren(view, children)
    IN  [liveView |-> removed.liveView, detectionChildren |-> children,
         thrown |-> removed.thrown]

\* clearDetections: the loop, then detectionChildren = [].
clearDetections(view, children) ==
    LET removed == removeChildren(view, children)
    IN  [liveView |-> removed.liveView,
         detectionChildren |-> IF removed.thrown THEN children ELSE <<>>,
         thrown |-> removed.thrown]

\* The first statement of handleDetections: clearDetections().
afterClear == clearDetections(liveView, detectionChildren)

\* updateUIMessage(status): the message on screen, if there is one, is removed
\* and untracked; a new one is appended and tracked.
updateUIMessage(st) ==
    LET messages == SelectSeq(st.liveView,
                              LAMBDA el : el.class = "detection-status")
        view == IF messages = <<>> THEN st.liveView
                ELSE removeChild(st.liveView, Head(messages))
        children == IF messages = <<>> THEN st.detectionChildren
                    ELSE removeChild(st.detectionChildren, Head(messages))
        p == Element("detection-status", 0)
    IN  [st EXCEPT !.liveView = Append(view, p),
                   !.detectionChildren = Append(children, p)]

\* updateDetectionUI(det, status): the box, the status text and, with
\* CONFIG.showKeypoints, one marker for each keypoint are appended and tracked.
updateDetectionUI(st, det) ==
    LET added == <<Element("highlighter", 0), Element("detection-status", 1)>>
                 \o [i \in 1 .. Len(det.keypoints) |-> Element("key-point", 1 + i)]
    IN  [st EXCEPT !.liveView = st.liveView \o added,
                   !.detectionChildren = st.detectionChildren \o added]

\* The page as a call of handleDetections that does not reach
\* captureAndFinalize leaves it when it adds no overlay: the video element and
\* the snapshot are not touched and the overlays are cleared.
pageUntouched ==
    LET cleared == afterClear
    IN  [srcObject |-> srcObject, videoDisplay |-> videoDisplay,
         snapshot |-> snapshot, thrown |-> FALSE,
         liveView |-> cleared.liveView,
         detectionChildren |-> cleared.detectionChildren,
         invalidText |-> invalidText]

\* handleDetections when its clearDetections throws: nothing else runs.
clearThrew ==
    LET cleared == afterClear
    IN  [counter |-> consecutiveFramesCounter, appState |-> appState,
         decision |-> [kind |-> "Thrown", progress |-> -1],
         status |-> currentStatus, saved |-> 0, srcObject |-> srcObject,
         videoDisplay |-> videoDisplay, snapshot |-> snapshot, thrown |-> TRUE,
         liveView |-> cleared.liveView,
         detectionChildren |-> cleared.detectionChildren,
         invalidText |-> invalidText]

\* Mutant of finalizeSteps: the stream is stopped and the video hidden before
\* the snapshot.
finalizeStepsStopFirst ==
    <<"appState", "stopWebcam", "displayFinalImage", "saveFrame",
      "clearDetections", "hideROI", "showSuccessMessage">>

\* The statements of captureAndFinalize in their order: mediapipe.js, and the
\* other copies, which neither show the image nor stop the stream.
finalizeSteps ==
    IF variant = "full"
    THEN <<"appState", "saveFrame", "clearDetections", "displayFinalImage",
           "stopWebcam", "hideROI", "showSuccessMessage">>
    ELSE <<"appState", "saveFrame", "clearDetections", "showSuccessMessage">>

\* One statement of captureAndFinalize.  saveFrame draws the video element on
\* the canvas and downloads the image; where the canvas fails it throws and
\* nothing after it runs.
finalizeStep(st, name) ==
    IF st.thrown THEN st
    ELSE IF name = "appState" THEN [st EXCEPT !.appState = "SUCCESS"]
    ELSE IF name = "saveFrame"
    THEN IF canvas = "ok"
         THEN [st EXCEPT !.saved = st.saved + 1,
                         !.snapshot = IF st.srcObject = "stream"
                                         /\ st.videoDisplay = "shown"
                                      THEN "live" ELSE "blank"]
         ELSE [st EXCEPT !.saved = st.saved + 1, !.thrown = TRUE]
    ELSE IF name = "clearDetections"
    THEN LET cleared == clearDetections(st.liveView, st.detectionChildren)
         IN  [st EXCEPT !.liveView = cleared.liveView,
                        !.detectionChildren = cleared.detectionChildren,
                        !.thrown = cleared.thrown]
    ELSE IF name = "displayFinalImage"
    THEN [st EXCEPT !.videoDisplay = "none",
                    !.liveView = Append(st.liveView, Element("img", 0))]
    ELSE IF name = "showSuccessMessage"
    THEN [st EXCEPT !.liveView = Append(st.liveView, Element("success", 1))]
    ELSE IF name = "stopWebcam" THEN [st EXCEPT !.srcObject = "null"]
    ELSE st

RECURSIVE runSteps(_, _)
runSteps(st, steps) ==
    IF steps = <<>> THEN st
    ELSE runSteps(finalizeStep(st, Head(steps)), Tail(steps))

\* The globals and the page as captureAndFinalize finds them: the overlays
\* of the last frame were cleared by handleDetections, no status is on screen.
beforeFinalize(c) ==
    [counter |-> c, appState |-> appState, decision |-> Accepted,
     status |-> "NONE", saved |-> 0] @@ pageUntouched

\* Mutant of captureAndFinalize: appState = 'SUCCESS' is forgotten.
captureWithoutState(c) == runSteps(beforeFinalize(c), Tail(finalizeSteps))

captureAndFinalize(c) == runSteps(beforeFinalize(c), finalizeSteps)

\* The status of a frame that advanced the counter without reaching the
\* required count.  The no-ROI copies test the counter first.
validatingStatus(c) ==
    IF hasROI \/ c > 0 THEN "VALIDATING" ELSE "VALIDATED"

\* Mutant of firstDetection: the last face reported is taken.
lastDetection(dets) == dets[Len(dets)]

\* detections[0]
firstDetection(dets) == dets[1]

\* Mutant of handleDetections: the score and the pose are tested before the
\* ROI.
handleDetectionsPoseFirst(dets) ==
    IF Len(dets) = 0
    THEN [counter |-> 0, appState |-> appState, decision |-> NoFace,
          status |-> IF hasROI THEN "NO_FACE" ELSE "NONE", saved |-> 0] @@ pageUntouched
    ELSE IF ~(dets[1].score > CONFIG.minScore
              /\ isFacingForward(dets[1].keypoints))
    THEN [counter |-> 0, appState |-> appState, decision |-> Invalid,
          status |-> "INVALID", saved |-> 0] @@ pageUntouched
    ELSE IF hasROI /\ ~isFaceInROI(dets[1])
    THEN [counter |-> 0, appState |-> appState, decision |-> OutOfRegion,
          status |-> "NO_FACE", saved |-> 0] @@ pageUntouched
    ELSE LET c == consecutiveFramesCounter + 1
         IN  IF c >= CONFIG.requiredConsecutiveFrames
             THEN captureAndFinalize(c)
             ELSE [counter |-> c, appState |-> appState,
                   decision |-> Validating(
                       progressOf(c, CONFIG.requiredConsecutiveFrames)),
                   status |-> validatingStatus(c), saved |-> 0] @@ pageUntouched

\* handleDetections(detections): the globals and the screen after the call.
handleDetections(dets) ==
    IF afterClear.thrown THEN clearThrew
    ELSE IF Len(dets) = 0
    THEN LET reset == [counter |-> counterAfterNoFace(consecutiveFramesCounter),
                       appState |-> appState, decision |-> NoFace,
                       status |-> IF hasROI THEN "NO_FACE" ELSE "NONE",
                       saved |-> 0] @@ pageUntouched
         IN  IF hasROI THEN updateUIMessage(reset) ELSE reset
    ELSE IF hasROI /\ ~isFaceInROI(firstDetection(dets))
    THEN updateUIMessage(
             [counter |-> counterAfterNoFace(consecutiveFramesCounter),
              appState |-> appState, decision |-> OutOfRegion,
              status |-> "NO_FACE", saved |-> 0] @@ pageUntouched)
    ELSE LET detection == firstDetection(dets)
             score == detection.score
             isFrontal == isFacingForward(detection.keypoints)
         IN  IF isConfident(score) /\ isFrontal
             THEN LET c == counterAfterValid(consecutiveFramesCounter)
                  IN  IF reachedRequired(c)
                      THEN captureAndFinalize(c)
                      ELSE updateDetectionUI(
                               [counter |-> c, appState |-> appState,
                                decision |-> Validating(
                                    progressOf(c, CONFIG.requiredConsecutiveFrames)),
                                status |-> validatingStatus(c),
                                saved |-> 0] @@ pageUntouched,
                               detection)
             ELSE updateDetectionUI(
                      [counter |-> counterAfterInvalid(consecutiveFramesCounter),
                       appState |-> appState, decision |-> Invalid,
                       status |-> "INVALID", saved |-> 0,
                       invalidText |-> withScore(invalidText, score)]
                      @@ pageUntouched,
                      detection)

---------------------------------------------------------------------------
(* History kept for the properties; the program does not read it.          *)

\* A qualifying frame: a detection that (in the ROI copies) is in the ROI,
\* scores above minScore and is frontal.
Qualifies(dets) ==
    /\ Len(dets) > 0
    /\ hasROI => isFaceInROI(dets[1])
    /\ dets[1].score > CONFIG.minScore
    /\ isFacingForward(dets[1].keypoints)

\* The last three decisions.
Remember(h, d) ==
    IF Len(h) < 3 THEN Append(h, d) ELSE Append(Tail(h), d)

---------------------------------------------------------------------------
(* The polling loop.                                                       *)

\* The module's top-level lets, with the CONFIG of the copy that runs.
InitPage(configs, copies, canvases) ==
    /\ CONFIG \in configs
    /\ variant \in copies
    /\ faceDetector = "undefined"
    /\ startup = "loading"
    /\ lastVideoTime = -1
    /\ consecutiveFramesCounter = 0
    /\ appState = "DETECTING"
    /\ currentTime = 0
    /\ rafCallbacks = 0
    /\ loadedEvents = 0
    /\ detections = <<>>
    /\ decision = NoDecision
    /\ currentStatus = "NONE"
    /\ savedFrames = 0
    /\ recent = <<>>
    /\ run = 0
    /\ skippedPoll = FALSE
    /\ canvas \in canvases
    /\ srcObject = "null"
    /\ videoDisplay = "shown"
    /\ snapshot = "none"
    /\ liveView = IF variant = "none" THEN <<>> ELSE <<roiBox>>
    /\ detectionChildren = <<>>
    /\ invalidText = STATUS_INVALID

InitSession(frames, thresholds, copies, canvases) ==
    InitPage(ConfigsWith(frames, thresholds), copies, canvases)

\* Sessions in which the snapshot canvas works.
InitConfig(frames, thresholds, copies) ==
    InitSession(frames, thresholds, copies, {"ok"})

InitWith(frames) == InitConfig(frames, {frontalThreshold}, Variants)

\* Mutant of afterInitFailure: the catch block starts the webcam all the same.
startsWebcamAnyway == "requested"

\* catch (error) { console.error(...) }: startWebcam is not called.
afterInitFailure == "failed"

\* main, from its awaits on: FilesetResolver.forVisionTasks and
\* FaceDetector.createFromOptions resolve or one of them rejects.  When they
\* resolve faceDetector is assigned and startWebcam is called, which returns
\* at once where getUserMedia is missing and otherwise requests the camera.
main ==
    /\ startup = "loading"
    /\ \E created \in BOOLEAN, supported \in BOOLEAN :
           IF created
           THEN /\ faceDetector' = "FaceDetector"
                /\ startup' = IF supported THEN "requested" ELSE "unsupported"
           ELSE /\ faceDetector' = faceDetector
                /\ startup' = afterInitFailure
    /\ UNCHANGED <<CONFIG, variant, canvas, lastVideoTime, consecutiveFramesCounter,
                   appState, currentTime, rafCallbacks, loadedEvents,
                   detections, decision, currentStatus, savedFrames, recent,
                   run, skippedPoll, pageVars, overlayVars, invalidText>>

\* The promise of getUserMedia settles: .then attaches the stream and adds
\* the 'loadeddata' listener, .catch logs the refusal.
getUserMedia ==
    /\ startup = "requested"
    /\ \E granted \in BOOLEAN :
           /\ startup' = IF granted THEN "listening" ELSE "denied"
           /\ srcObject' = IF granted THEN "stream" ELSE srcObject
    /\ UNCHANGED <<CONFIG, variant, canvas, faceDetector, lastVideoTime,
                   consecutiveFramesCounter, appState, currentTime,
                   rafCallbacks, loadedEvents, detections, decision,
                   currentStatus, savedFrames, recent, run, skippedPoll,
                   videoDisplay, snapshot, overlayVars, invalidText>>

\* DOM.video.addEventListener("loadeddata", predictWebcam): the event queues
\* an invocation of predictWebcam.
LoadedDataUpTo(maxEvents) ==
    /\ startup = "listening"
    /\ srcObject = "stream"
    /\ loadedEvents < maxEvents
    /\ loadedEvents' = loadedEvents + 1
    /\ rafCallbacks' = rafCallbacks + 1
    /\ UNCHANGED <<CONFIG, variant, canvas, faceDetector, startup, lastVideoTime,
                   consecutiveFramesCounter, appState, currentTime, detections,
                   decision, currentStatus, savedFrames, recent, run,
                   skippedPoll, pageVars, overlayVars, invalidText>>

LoadedData == LoadedDataUpTo(MaxLoadedData)

\* The browser presents the next frame of the stream: DOM.video.currentTime
\* advances.
VideoFrame(maxTime, maxLag) ==
    /\ srcObject = "stream"
    /\ currentTime < maxTime
    /\ currentTime - lastVideoTime < maxLag
    /\ currentTime' = currentTime + 1
    /\ skippedPoll' = FALSE
    /\ UNCHANGED <<CONFIG, variant, canvas, faceDetector, startup, lastVideoTime,
                   consecutiveFramesCounter, appState, rafCallbacks,
                   loadedEvents, detections, decision, currentStatus,
                   savedFrames, recent, run, pageVars, overlayVars, invalidText>>

\* Mutant of alreadySucceeded: the guard is missing.
guardMissing == FALSE

\* if (appState === 'SUCCESS') return;
alreadySucceeded == appState = "SUCCESS"

\* Mutant of callbacksAfterReturn: the guard requests another animation frame.
callbacksAfterRequest(queued) == queued

\* The invocation that returns at the guard leaves the queue and requests no
\* animation frame.
callbacksAfterReturn(queued) == queued - 1

\* Mutant of frameIsNew: every poll evaluates the frame on screen.
frameAlwaysNew == TRUE

\* if (DOM.video.currentTime !== lastVideoTime)
frameIsNew == currentTime # lastVideoTime

\* One invocation of predictWebcam.  detectForVideo is called only for a
\* frame not seen before; dets is what it reports for the frame on screen.
\* An exception thrown under handleDetections ends the invocation before
\* requestAnimationFrame.  Without a detector, faceDetector.detectForVideo throws after lastVideoTime
\* was assigned: the invocation ends there and requests no animation frame.
predictWebcam(detector) ==
    /\ rafCallbacks > 0
    /\ IF alreadySucceeded
       THEN /\ rafCallbacks' = callbacksAfterReturn(rafCallbacks)
            /\ UNCHANGED <<lastVideoTime, consecutiveFramesCounter, appState,
                           detections, decision, currentStatus, savedFrames,
                           recent, run, skippedPoll, pageVars, overlayVars, invalidText>>
       ELSE IF ~frameIsNew
       THEN /\ rafCallbacks' = rafCallbacks
            /\ skippedPoll' = TRUE
            /\ UNCHANGED <<lastVideoTime, consecutiveFramesCounter, appState,
                           detections, decision, currentStatus, savedFrames,
                           recent, run, pageVars, overlayVars, invalidText>>
       ELSE IF faceDetector = "undefined"
       THEN /\ rafCallbacks' = rafCallbacks - 1
            /\ lastVideoTime' = currentTime
            /\ UNCHANGED <<consecutiveFramesCounter, appState, detections,
                           decision, currentStatus, savedFrames, recent, run,
                           skippedPoll, pageVars, overlayVars, invalidText>>
       ELSE \E dets \in detector :
                \E after \in {handleDetections(dets)} :
                    /\ rafCallbacks' = IF after.thrown THEN rafCallbacks - 1
                                         ELSE rafCallbacks
                    /\ srcObject' = after.srcObject
                    /\ videoDisplay' = after.videoDisplay
                    /\ snapshot' = after.snapshot
                    /\ liveView' = after.liveView
                    /\ detectionChildren' = after.detectionChildren
                    /\ invalidText' = after.invalidText
                    /\ lastVideoTime' = currentTime
                    /\ detections' = dets
                    /\ consecutiveFramesCounter' = after.counter
                    /\ appState' = after.appState
                    /\ decision' = after.decision
                    /\ currentStatus' = after.status
                    /\ savedFrames' = savedFrames + after.saved
                    /\ recent' = Remember(recent, after.decision)
                    /\ run' = IF Qualifies(dets) THEN run + 1 ELSE 0
                    /\ skippedPoll' = FALSE
    /\ UNCHANGED <<CONFIG, variant, canvas, faceDetector, startup, currentTime,
                   loadedEvents>>

Tick == VideoFrame(MaxTime, MaxLag)

Init == InitWith(1 .. MaxRequired)

Next == main \/ getUserMedia \/ LoadedData \/ Tick \/ predictWebcam(Detector)

Spec == Init /\ [][Next]_vars

\* The browser runs every animation-frame callback it has queued.
SpecFair == Spec /\ WF_vars(predictWebcam(Detector))

\* A session in which a qualifying face is held in front of the camera and
\* every video frame is polled, for every requiredConsecutiveFrames up to
\* MaxProgressFrames (the shipped 60 and 120 among them).
SteadyFace ==
    {<<[score |-> 95, boundingBox |-> BoxInside, keypoints |-> KpSymmetric]>>}

InitProgress == InitWith(1 .. MaxProgressFrames)

NextProgress ==
    \/ main
    \/ getUserMedia
    \/ LoadedData
    \/ VideoFrame(CONFIG.requiredConsecutiveFrames, 1)
    \/ predictWebcam(SteadyFace)

SpecProgress == InitProgress /\ [][NextProgress]_vars

\* A session in which 'loadeddata' fires up to MaxLoops times, each firing
\* starting its own chain of animation-frame callbacks; the callbacks of the
\* chains run one at a time in any order (predictWebcam has no await, so an
\* invocation runs to its end before the next starts).  The detector reports
\* no face, a qualifying face or a turned one.
LoopDetector ==
    {<<>>} \cup SteadyFace
        \cup {<<[score |-> 95, boundingBox |-> BoxInside, keypoints |-> KpTurned]>>}

InitLoops == InitWith(1 .. 2)

NextLoops ==
    \/ main
    \/ getUserMedia
    \/ LoadedDataUpTo(MaxLoops)
    \/ VideoFrame(MaxTime, MaxLag)
    \/ predictWebcam(LoopDetector)

SpecLoops ==
    InitLoops /\ [][NextLoops]_vars /\ WF_vars(predictWebcam(LoopDetector))

\* A session in which the detector reports up to two faces for a frame, each
\* of them qualifying, turned, not confident or outside the ROI.
Faces ==
    {[score |-> 95, boundingBox |-> BoxInside, keypoints |-> KpSymmetric],
     [score |-> 95, boundingBox |-> BoxInside, keypoints |-> KpTurned],
     [score |-> 50, boundingBox |-> BoxInside, keypoints |-> KpSymmetric],
     [score |-> 95, boundingBox |-> BoxOutside, keypoints |-> KpSymmetric]}

FacesDetector ==
    {<<>>} \cup {<<a>> : a \in Faces} \cup {<<a, b>> : a \in Faces, b \in Faces}

InitFaces == InitWith(2 .. 3)

NextFaces ==
    \/ main
    \/ getUserMedia
    \/ LoadedData
    \/ Tick
    \/ predictWebcam(FacesDetector)

SpecFaces == InitFaces /\ [][NextFaces]_vars

\* A session in which the snapshot canvas works or fails (getContext gives no
\* context, or drawImage or toDataURL throws).
InitCapture == InitSession(1 .. 2, {frontalThreshold}, Variants, {"ok", "broken"})

NextCapture ==
    \/ main
    \/ getUserMedia
    \/ LoadedData
    \/ Tick
    \/ predictWebcam(LoopDetector)

SpecCapture == InitCapture /\ [][NextCapture]_vars

\* Sessions with CONFIG.showScore switched on: a face in the ROI, frontal or
\* turned, with each score.
ScoreDetector ==
    {<<>>} \cup {<<[score |-> sc, boundingBox |-> BoxInside, keypoints |-> kp]>> :
                    sc \in Scores, kp \in {KpSymmetric, KpTurned}}

InitScore ==
    InitPage(ConfigsShowing(1 .. 2, {frontalThreshold}, {TRUE}), Variants, {"ok"})

NextScore ==
    main \/ getUserMedia \/ LoadedData \/ Tick \/ predictWebcam(ScoreDetector)

SpecScore == InitScore /\ [][NextScore]_vars

\* A session of two frames in which the detector reports a confident face
\* inside the ROI whose keypoints range over a grid: every horizontal
\* placement of the two eyes and the nose on 0 .. PoseGrid, two vertical
\* placements, with and without a fourth keypoint (the mouth), and the
\* keypoints of Keypoints; CONFIG.frontalThreshold ranges over
\* PoseThresholds.
PoseThresholds == {0, 50, 70, 100}

PoseKeypoints ==
    Keypoints \cup
    {<<Point(l, y), Point(r, y), Point(n, 30 - y)>>
        \o (IF mouth THEN <<Point(n, 30)>> ELSE <<>>) :
        l \in 0 .. PoseGrid, r \in 0 .. PoseGrid, n \in 0 .. PoseGrid,
        y \in {0, 30}, mouth \in BOOLEAN}

PoseDetector ==
    {<<[score |-> 95, boundingBox |-> BoxInside, keypoints |-> k]>> :
        k \in PoseKeypoints}

InitPose == InitConfig({2}, PoseThresholds, Variants)

NextPose ==
    \/ main
    \/ getUserMedia
    \/ LoadedData
    \/ VideoFrame(1, 1)
    \/ predictWebcam(PoseDetector)

SpecPose == InitPose /\ [][NextPose]_vars

\* A session of two frames in which the detector reports a confident frontal
\* face whose bounding box ranges over a grid of source pixels: originX in
\* steps of 5 from 0 to 5 * BoxSteps, widths 0, 1, 10 and 30, originY 5, 10
\* and 40, heights 0, 1 and 25.  In the mirrored element the box spans
\* 130 - 2 * (originX + width) .. 130 - 2 * originX horizontally and
\* 2 * originY .. 2 * (originY + height) vertically; the ROI spans 20 .. 80
\* by 15 .. 85.  The two copies that test the ROI run.
RegionBoxes ==
    {[originX |-> 5 * i, originY |-> oy, width |-> w, height |-> h] :
        i \in 0 .. BoxSteps, oy \in {5, 10, 40}, w \in {0, 1, 10, 30},
        h \in {0, 1, 25}}

RegionDetector ==
    {<<[score |-> 95, boundingBox |-> b, keypoints |-> KpSymmetric]>> :
        b \in RegionBoxes}

InitRegion == InitConfig({2}, {frontalThreshold}, {"full", "center"})

NextRegion ==
    \/ main
    \/ getUserMedia
    \/ LoadedData
    \/ VideoFrame(1, 1)
    \/ predictWebcam(RegionDetector)

SpecRegion == InitRegion /\ [][NextRegion]_vars

---------------------------------------------------------------------------
(* Properties.                                                             *)

\* The step evaluated a frame: predictWebcam called handleDetections.
Evaluated == lastVideoTime' # lastVideoTime

Required == CONFIG.requiredConsecutiveFrames

\* The configuration of the spec's example scenarios.
ExampleConfig ==
    /\ Required = 3
    /\ CONFIG.minScore = 90
    /\ CONFIG.frontalThreshold = 70

Last(h) == h[Len(h)]

\* The decision before the last one was Validating: the counter was positive
\* when the last frame was evaluated.
WasValidating ==
    /\ Len(recent) >= 2
    /\ recent[Len(recent) - 1].kind = "Validating"

\* C1: appState is 'SUCCESS' only at the end of an unbroken run of exactly
\* requiredConsecutiveFrames evaluated frames that all qualified (detection
\* present, in the ROI in the ROI copies, score > minScore, frontal): no
\* shorter run and no run holding a disqualifying frame triggers
\* captureAndFinalize.
C1_SuccessEndsFullRun ==
    /\ appState = "SUCCESS" =>
          /\ run = Required
          /\ consecutiveFramesCounter = Required
          /\ Qualifies(detections)
          /\ decision = Accepted
          /\ \A i \in 1 .. Len(recent) :
                 i > Len(recent) - Required =>
                     recent[i].kind \in {"Validating", "Accepted"}
    /\ appState = "DETECTING" => decision # Accepted

C1_Witness ==
    /\ appState = "SUCCESS"
    /\ Required = 3
    /\ run = 3
    /\ variant = "full"
    /\ Len(recent) = 3

\* C2: once the session is accepted, appState stays 'SUCCESS' and
\* consecutiveFramesCounter never changes again, whatever further
\* invocations of predictWebcam and whatever frames follow.
C2_TerminalIsFrozen ==
    [][appState = "SUCCESS" =>
          /\ appState' = "SUCCESS"
          /\ consecutiveFramesCounter' = consecutiveFramesCounter
          /\ decision' = decision]_vars

\* A new video frame came after acceptance and the queued invocation of
\* predictWebcam has run.
C2_Witness ==
    /\ appState = "SUCCESS"
    /\ loadedEvents > 0
    /\ rafCallbacks = 0
    /\ currentTime # lastVideoTime

\* A disqualifying frame, as the claim lists them.
Disqualifying(dets) ==
    \/ Len(dets) = 0
    \/ variant # "none" /\ ~isFaceInROI(dets[1])
    \/ dets[1].score <= CONFIG.minScore
    \/ ~isFacingForward(dets[1].keypoints)

\* C3: while appState is 'DETECTING', evaluating one disqualifying frame (no
\* detection, face outside the ROI, score <= minScore, not frontal) sets
\* consecutiveFramesCounter to exactly 0 whatever it was, also when it was
\* requiredConsecutiveFrames - 1.
C3_DisqualifyingResets ==
    [][(appState = "DETECTING" /\ Evaluated /\ Disqualifying(detections')) =>
          consecutiveFramesCounter' = 0]_vars

\* The counter stood at requiredConsecutiveFrames - 1 = 2 and a bad frame came.
C3_Witness ==
    /\ Required = 3
    /\ recent = <<Validating(33), Validating(67), Invalid>>
    /\ consecutiveFramesCounter = 0
    /\ appState = "DETECTING"

\* C4: for every configuration and every non-terminal state, evaluating a
\* frame without a detection resets consecutiveFramesCounter to 0 and takes
\* the NoFace exit.
C4_NoDetectionResets ==
    [][(appState = "DETECTING" /\ Evaluated /\ Len(detections') = 0) =>
          /\ consecutiveFramesCounter' = 0
          /\ decision' = NoFace
          /\ appState' = "DETECTING"]_vars

C4_Witness ==
    /\ decision = NoFace
    /\ detections = <<>>
    /\ consecutiveFramesCounter = 0
    /\ WasValidating

\* C5: with requiredConsecutiveFrames = 3, minScore = 0.9, frontalThreshold =
\* 0.7 and no ROI, a session whose frames all qualify (score 0.95, symmetric
\* keypoints) gives Validating(33), Validating(67), Accepted in this order,
\* and the counter stays at 3 after acceptance however often predictWebcam
\* is invoked again.
C5_ThreeFrameScenario ==
    (ExampleConfig /\ variant = "none") =>
        /\ (run >= 1 /\ run = Len(recent)) =>
               recent = SubSeq(<<Validating(33), Validating(67), Accepted>>, 1, run)
        /\ appState = "SUCCESS" => consecutiveFramesCounter = 3

\* The three frames were evaluated, and a fourth invocation has run.
C5_Witness ==
    /\ ExampleConfig
    /\ variant = "none"
    /\ recent = <<Validating(33), Validating(67), Accepted>>
    /\ detections \in SteadyFace
    /\ rafCallbacks = 0
    /\ consecutiveFramesCounter = 3

\* A frame that is frontal and in the ROI with score 0.5.
LowConfidence(dets) ==
    /\ Len(dets) > 0
    /\ variant # "none" => isFaceInROI(dets[1])
    /\ isFacingForward(dets[1].keypoints)
    /\ dets[1].score = 50

\* C6: with requiredConsecutiveFrames = 3, minScore = 0.9, frontalThreshold =
\* 0.7: a qualifying first frame gives Validating(33) and counter 1, a frame
\* of score 0.5 then gives Invalid and counter 0, and a qualifying frame
\* after it gives Validating(33) and counter 1 again.
C6_ResetScenario ==
    [][(ExampleConfig /\ appState = "DETECTING" /\ Evaluated) =>
          /\ (consecutiveFramesCounter = 0 /\ Qualifies(detections')) =>
                 (decision' = Validating(33) /\ consecutiveFramesCounter' = 1)
          /\ LowConfidence(detections') =>
                 (decision' = Invalid /\ consecutiveFramesCounter' = 0)]_vars

C6_Witness ==
    /\ ExampleConfig
    /\ recent = <<Validating(33), Invalid, Validating(33)>>
    /\ consecutiveFramesCounter = 1

\* Math.round(100 / n).
RoundedStep(n) == (200 + n) \div (2 * n)

\* Two successive decisions of a run that are both Validating.
ValidatingPair(i) ==
    /\ i \in 1 .. Len(recent) - 1
    /\ recent[i].kind = "Validating"
    /\ recent[i + 1].kind = "Validating"

\* C7 as stated: over a run of qualifying frames the progress strictly
\* increases by round(100 / requiredConsecutiveFrames) at each frame.
C7_Original ==
    \A i \in 1 .. 2 :
        ValidatingPair(i) =>
            /\ recent[i + 1].progress > recent[i].progress
            /\ recent[i + 1].progress = recent[i].progress + RoundedStep(Required)

\* C7: over a run of qualifying frames the progress never decreases, and it
\* grows at each frame by floor(100 / N) or ceil(100 / N), N being
\* requiredConsecutiveFrames (so by 0 or 1 for the shipped 120, by 1 or 2
\* for the shipped 60, by 33 or 34 for 3).
C7_ProgressSteps ==
    \A i \in 1 .. 2 :
        ValidatingPair(i) =>
            /\ recent[i + 1].progress >= recent[i].progress
            /\ recent[i + 1].progress - recent[i].progress
                   \in {100 \div Required, (100 + Required - 1) \div Required}

\* With the shipped 120 the progress stands still from one frame to the next.
C7_Witness ==
    /\ Required = 120
    /\ ValidatingPair(2)
    /\ recent[3].progress = recent[2].progress

\* C8 as stated: for every positive requiredConsecutiveFrames the progress
\* of a Validating decision is an integer of [0, 100).
C8_Original ==
    decision.kind = "Validating" =>
        (decision.progress >= 0 /\ decision.progress < 100)

\* C8: for every requiredConsecutiveFrames N from 1 to 199 and every counter
\* c with 1 <= c < N, the progress of a Validating decision is an integer of
\* [0, 100), and it is Math.round(c / N * 100).
C8_ProgressBelow100 ==
    (Required < 200 /\ decision.kind = "Validating") =>
        /\ consecutiveFramesCounter \in 1 .. Required - 1
        /\ decision.progress >= 0
        /\ decision.progress < 100

C8_Witness ==
    /\ Required = 199
    /\ consecutiveFramesCounter = 198
    /\ decision = Validating(99)

\* A box centred outside the ROI on a face that otherwise qualifies.
CentredOutside(dets) ==
    /\ Len(dets) > 0
    /\ ~isFaceInROICenter(dets[1])
    /\ dets[1].score > CONFIG.minScore
    /\ isFacingForward(dets[1].keypoints)

\* C9: in the ROI copies a frame whose box is centred outside the ROI, with
\* qualifying score and pose, takes the OutOfRegion exit and resets the
\* counter to 0; it is never Validating and never advances the counter.
C9_OutOfRegionResets ==
    [][(variant # "none" /\ appState = "DETECTING" /\ Evaluated
            /\ CentredOutside(detections')) =>
          /\ decision' = OutOfRegion
          /\ currentStatus' = "NO_FACE"
          /\ consecutiveFramesCounter' = 0
          /\ appState' = "DETECTING"]_vars

C9_Witness ==
    /\ variant # "none"
    /\ decision = OutOfRegion
    /\ detections = <<[score |-> 95, boundingBox |-> BoxOutside,
                       keypoints |-> KpSymmetric]>>
    /\ consecutiveFramesCounter = 0
    /\ WasValidating

\* A frontal face in the ROI whose score is exactly minScore.
ScoreAtThreshold(dets) ==
    /\ Len(dets) > 0
    /\ variant # "none" => isFaceInROI(dets[1])
    /\ isFacingForward(dets[1].keypoints)
    /\ dets[1].score = CONFIG.minScore

\* C10: the score is compared strictly: a frontal, in-ROI frame whose score
\* equals minScore does not qualify; it resets the counter to 0 and takes
\* the Invalid exit.
C10_ScoreStrict ==
    [][(appState = "DETECTING" /\ Evaluated /\ ScoreAtThreshold(detections')) =>
          /\ decision' = Invalid
          /\ consecutiveFramesCounter' = 0]_vars

C10_Witness ==
    /\ decision = Invalid
    /\ ScoreAtThreshold(detections)
    /\ consecutiveFramesCounter = 0
    /\ WasValidating

\* The detection evaluated last was present, inside the ROI where the copy
\* has one, and confident: its outcome was decided by the pose alone.
PoseDecides ==
    /\ detections # <<>>
    /\ hasROI => isFaceInROI(detections[1])
    /\ detections[1].score > CONFIG.minScore

dLeft(keypoints) == Abs(keypoints[3].x - keypoints[1].x)
dRight(keypoints) == Abs(keypoints[3].x - keypoints[2].x)

Degenerate(keypoints) ==
    keypoints[3].x = keypoints[1].x \/ keypoints[3].x = keypoints[2].x

Counted == decision.kind \in {"Validating", "Accepted"}

\* C11: degenerate geometry (noseTip.x equal to leftEye.x or to rightEye.x)
\* makes isFacingForward false for every frontalThreshold; the frame, present,
\* in the ROI and confident, takes the Invalid exit and the counter is 0.
C11_DegenerateIsInvalid ==
    (PoseDecides /\ Degenerate(detections[1].keypoints)) =>
        /\ ~isFacingForward(detections[1].keypoints)
        /\ decision = Invalid
        /\ consecutiveFramesCounter = 0
        /\ appState = "DETECTING"

C11_Witness ==
    /\ PoseDecides
    /\ Degenerate(detections[1].keypoints)
    /\ CONFIG.frontalThreshold = 0
    /\ decision = Invalid
    /\ consecutiveFramesCounter = 0
    /\ WasValidating

Symmetric(keypoints) ==
    /\ dLeft(keypoints) = dRight(keypoints)
    /\ dLeft(keypoints) # 0

\* C12: keypoints with the nose at the same non-zero horizontal distance from
\* both eyes are frontal for every frontalThreshold below 1: the frame,
\* present, in the ROI and confident, advances the counter.
C12_SymmetricIsFrontal ==
    (PoseDecides /\ Symmetric(detections[1].keypoints)
        /\ CONFIG.frontalThreshold < 100) =>
        /\ isFacingForward(detections[1].keypoints)
        /\ Counted
        /\ consecutiveFramesCounter > 0

C12_Witness ==
    /\ PoseDecides
    /\ Symmetric(detections[1].keypoints)
    /\ detections[1].keypoints \notin Keypoints
    /\ CONFIG.frontalThreshold = 70
    /\ decision = Validating(50)
    /\ consecutiveFramesCounter = 1

\* C13: a poll that finds DOM.video.currentTime equal to lastVideoTime calls
\* neither the detector nor handleDetections: the detections, the decisions,
\* the counter and appState stay as they are.  A frame is evaluated only when
\* its time differs from lastVideoTime, which then takes that time, so a
\* frame held across many polls is evaluated once and advances the counter
\* by at most 1.
C13_SeenFrameIsSkipped ==
    [][/\ currentTime = lastVideoTime =>
            UNCHANGED <<lastVideoTime, detections, decision, recent, run,
                        currentStatus, consecutiveFramesCounter, appState,
                        savedFrames>>
       /\ Evaluated => /\ currentTime # lastVideoTime
                       /\ lastVideoTime' = currentTime
                       /\ currentTime' = currentTime
       /\ consecutiveFramesCounter' <= consecutiveFramesCounter + 1]_vars

C13_Witness ==
    /\ skippedPoll
    /\ currentTime = lastVideoTime
    /\ appState = "DETECTING"
    /\ Qualifies(detections)
    /\ Len(recent) = 1
    /\ consecutiveFramesCounter = 1

\* C14: 0 <= consecutiveFramesCounter <= requiredConsecutiveFrames; the
\* counter is below requiredConsecutiveFrames while appState is 'DETECTING'
\* and equal to it once appState is 'SUCCESS'.
C14_CounterRange ==
    /\ consecutiveFramesCounter \in 0 .. Required
    /\ appState = "DETECTING" => consecutiveFramesCounter < Required
    /\ appState = "SUCCESS" => consecutiveFramesCounter = Required

C14_Witness ==
    /\ appState = "SUCCESS"
    /\ consecutiveFramesCounter = Required
    /\ Required = 3
    /\ WasValidating

\* C15: once appState is 'SUCCESS' no frame is evaluated any more (the
\* detector and handleDetections are not called: lastVideoTime, the
\* detections and the decisions stay as they are), an invocation of
\* predictWebcam only leaves the queue, and the queue of animation-frame
\* callbacks drains: the polling loop ends.
C15_LoopStops ==
    /\ [][appState = "SUCCESS" =>
            /\ UNCHANGED <<lastVideoTime, detections, decision, recent, run,
                           currentStatus, savedFrames>>
            /\ loadedEvents' = loadedEvents => rafCallbacks' <= rafCallbacks]_vars
    /\ (appState = "SUCCESS") ~> (rafCallbacks = 0)

\* The callback queued by the accepting invocation has run and the queue is
\* empty, with a frame on screen that was never evaluated.
C15_Witness ==
    /\ appState = "SUCCESS"
    /\ decision = Accepted
    /\ loadedEvents = 1
    /\ rafCallbacks = 0
    /\ currentTime > lastVideoTime
    /\ Required = 2

\* C16: saveFrame runs at most once in a session, and it runs exactly in the
\* step that takes appState from 'DETECTING' to 'SUCCESS': never while the
\* session stays in 'DETECTING', never again after 'SUCCESS'.
C16_SaveFrameOnce ==
    [][/\ savedFrames' # savedFrames <=>
            (appState = "DETECTING" /\ appState' = "SUCCESS")
       /\ savedFrames' \in {savedFrames, savedFrames + 1}
       /\ savedFrames' <= 1]_vars

\* The frame was saved, and a later frame and a later poll went by.
C16_Witness ==
    /\ savedFrames = 1
    /\ appState = "SUCCESS"
    /\ Required = 3
    /\ rafCallbacks = 0
    /\ currentTime > lastVideoTime

\* The reference predicate: both horizontal distances are non-zero and
\* min(dLeft, dRight) / max(dLeft, dRight) > frontalThreshold.
ReferenceFrontal(keypoints) ==
    LET lo == Min(dLeft(keypoints), dRight(keypoints))
        hi == Max(dLeft(keypoints), dRight(keypoints))
    IN  /\ dLeft(keypoints) # 0
        /\ dRight(keypoints) # 0
        /\ 100 * lo > CONFIG.frontalThreshold * hi

\* The ratio of the two distances equals frontalThreshold.
RatioAtThreshold(keypoints) ==
    /\ ~Degenerate(keypoints)
    /\ 100 * Min(dLeft(keypoints), dRight(keypoints))
           = CONFIG.frontalThreshold * Max(dLeft(keypoints), dRight(keypoints))

\* C17: isFacingForward is true exactly when the reference predicate is: both
\* distances non-zero and min/max strictly above frontalThreshold, a function
\* of the x-coordinates of the first three keypoints only; and the frame,
\* present, in the ROI and confident, advances the counter exactly then.
C17_MatchesReference ==
    PoseDecides =>
        /\ isFacingForward(detections[1].keypoints)
               <=> ReferenceFrontal(detections[1].keypoints)
        /\ Counted <=> ReferenceFrontal(detections[1].keypoints)

\* A frame whose ratio equals the threshold, with a fourth keypoint and the
\* second vertical placement, was not frontal.
C17_Witness ==
    /\ PoseDecides
    /\ RatioAtThreshold(detections[1].keypoints)
    /\ CONFIG.frontalThreshold = 50
    /\ Len(detections[1].keypoints) = 4
    /\ detections[1].keypoints[1].y = 30
    /\ decision = Invalid
    /\ WasValidating

BoxPositive(detection) ==
    detection.boundingBox.width > 0 /\ detection.boundingBox.height > 0

\* C18: with the same video geometry and ROI, every detection with positive
\* box width and height that the full-containment isFaceInROI accepts is
\* accepted by the centre-containment isFaceInROI: a frame the mediapipe.js
\* copy lets through would pass part_001's test, and a frame part_001 turns
\* away as out of region fails the test of mediapipe.js.
C18_FullImpliesCentre ==
    (detections # <<>> /\ BoxPositive(detections[1])) =>
        /\ isFaceInROIFull(detections[1]) => isFaceInROICenter(detections[1])
        /\ (variant = "full" /\ Counted) => isFaceInROICenter(detections[1])
        /\ (variant = "center" /\ decision = OutOfRegion)
               => ~isFaceInROIFull(detections[1])

\* A box that part_001 accepted and mediapipe.js would turn away: its centre
\* is inside the ROI and it sticks out of it.
C18_Witness ==
    /\ variant = "center"
    /\ detections # <<>>
    /\ BoxPositive(detections[1])
    /\ detections[1].boundingBox \notin Boxes
    /\ Counted
    /\ isFaceInROICenter(detections[1])
    /\ ~isFaceInROIFull(detections[1])

\* The frame evaluated last held a face outside the ROI that was also turned
\* or not confident.
OutsideAndUnfit ==
    /\ hasROI
    /\ detections # <<>>
    /\ ~isFaceInROI(detections[1])
    /\ \/ ~isFacingForward(detections[1].keypoints)
       \/ detections[1].score <= CONFIG.minScore

\* C19: the ROI test comes before the score and the pose: a face outside the
\* ROI that is also turned or not confident takes the out-of-region exit
\* (status NO_FACE, counter 0), not the Invalid one.
C19_RegionFirst ==
    OutsideAndUnfit =>
        /\ decision = OutOfRegion
        /\ currentStatus = "NO_FACE"
        /\ consecutiveFramesCounter = 0
        /\ appState = "DETECTING"

C19_Witness ==
    /\ OutsideAndUnfit
    /\ detections[1].score = 50
    /\ detections[1].keypoints = KpTurned
    /\ decision = OutOfRegion
    /\ currentStatus = "NO_FACE"
    /\ WasValidating

\* C20: an evaluation that leaves the counter below requiredConsecutiveFrames
\* (no face, out of ROI, Invalid, Validating) leaves appState 'DETECTING',
\* leaves CONFIG and the ROI policy as they were, and saves no frame; of the
\* validator's state only the counter changes.
C20_OnlyCounterChanges ==
    [][(Evaluated /\ consecutiveFramesCounter' < Required) =>
          /\ appState = "DETECTING"
          /\ appState' = "DETECTING"
          /\ decision'.kind \in {"NoFace", "OutOfRegion", "Invalid", "Validating"}
          /\ CONFIG' = CONFIG
          /\ variant' = variant
          /\ savedFrames' = savedFrames]_vars

\* Three evaluations short of the required run went by: no face, then a
\* counted frame, then an invalid one.
C20_Witness ==
    /\ appState = "DETECTING"
    /\ Len(recent) = 3
    /\ recent[1] = NoFace
    /\ recent[2].kind = "Validating"
    /\ recent[3] = Invalid
    /\ consecutiveFramesCounter = 0
    /\ savedFrames = 0

\* C21: while appState is 'DETECTING' the counter is the length of the run
\* of qualifying frames evaluated last, and that run is shorter than
\* requiredConsecutiveFrames: requiredConsecutiveFrames qualifying frames
\* evaluated in a row, from whatever poll, end in 'SUCCESS'.  Conversely a
\* session whose runs all stay shorter is in 'DETECTING', and in 'DETECTING'
\* every polling loop that was started has its callback queued: nothing
\* times the session out.
C21_BoundedResponse ==
    /\ appState = "DETECTING" =>
           /\ consecutiveFramesCounter = run
           /\ run < Required
           /\ rafCallbacks = loadedEvents
    /\ run < Required => appState = "DETECTING"

\* A run of requiredConsecutiveFrames qualifying frames that began after a
\* frame that did not qualify was accepted at its last frame.
C21_Witness ==
    /\ Required = 2
    /\ recent = <<Invalid, Validating(50), Accepted>>
    /\ run = 2
    /\ lastVideoTime = 2
    /\ appState = "SUCCESS"

\* C22: with several polling loops active, whatever the order of their
\* callbacks, a video time is evaluated at most once (an evaluation happens
\* only at a time later than the last one evaluated, and a poll at the time
\* already evaluated changes nothing), captureAndFinalize runs at most once,
\* and after 'SUCCESS' every loop stops: the callback queue drains.
C22_LoopsShareOneSession ==
    /\ [][/\ Evaluated => /\ lastVideoTime < currentTime
                          /\ lastVideoTime' = currentTime
          /\ currentTime = lastVideoTime =>
                 UNCHANGED <<detections, decision, recent, run,
                             consecutiveFramesCounter, appState, savedFrames>>
          /\ savedFrames' <= 1
          /\ appState = "SUCCESS" =>
                 /\ savedFrames' = savedFrames
                 /\ loadedEvents' = loadedEvents => rafCallbacks' < rafCallbacks
                                                    \/ UNCHANGED rafCallbacks]_vars
    /\ (appState = "SUCCESS") ~> (rafCallbacks = 0)

\* Two loops are polling, and one of them found the frame the other had
\* evaluated.
C22_Witness ==
    /\ loadedEvents = 2
    /\ rafCallbacks = 2
    /\ appState = "DETECTING"
    /\ skippedPoll
    /\ consecutiveFramesCounter = 1
    /\ run = 1

\* Nothing of the detection loop has happened.
LoopNeverRan ==
    /\ loadedEvents = 0
    /\ rafCallbacks = 0
    /\ lastVideoTime = -1
    /\ detections = <<>>
    /\ decision = NoDecision
    /\ appState = "DETECTING"
    /\ consecutiveFramesCounter = 0

\* C23: the detection loop starts only after the face detector is ready:
\* while faceDetector is undefined the 'loadeddata' listener is not added, no
\* invocation of predictWebcam is queued and no frame is evaluated; when the
\* initialisation fails startWebcam is not called and the state stays
\* appState = 'DETECTING' with the counter at 0.
C23_LoopNeedsDetector ==
    /\ faceDetector = "undefined" =>
           /\ startup \in {"loading", "failed"}
           /\ LoopNeverRan
    /\ startup = "failed" => faceDetector = "undefined"
    /\ ~LoopNeverRan => (faceDetector = "FaceDetector" /\ startup = "listening")

\* The initialisation of the detector failed.
C23_Witness ==
    /\ startup = "failed"
    /\ faceDetector = "undefined"
    /\ LoopNeverRan

\* C24: captureAndFinalize sets appState to 'SUCCESS' before it attempts the
\* snapshot, and in mediapipe.js saveFrame is over before the stream is
\* stopped and the video hidden: a failure inside saveFrame leaves the
\* session in 'SUCCESS' with no capture (and in mediapipe.js with the stream
\* still attached and the video still shown), and a capture is always drawn
\* from the live, visible video.
C24_StateThenSnapshotThenStop ==
    /\ savedFrames > 0 => appState = "SUCCESS"
    /\ snapshot \in {"none", "live"}
    /\ snapshot = "live" <=> (appState = "SUCCESS" /\ canvas = "ok")
    /\ (appState = "SUCCESS" /\ canvas = "broken") =>
           /\ savedFrames = 1
           /\ snapshot = "none"
           /\ srcObject = "stream"
           /\ videoDisplay = "shown"
    /\ (appState = "SUCCESS" /\ canvas = "ok" /\ variant = "full") =>
           /\ srcObject = "null"
           /\ videoDisplay = "none"

\* saveFrame failed in mediapipe.js: the session is terminal without a
\* capture, and the invocation that accepted requested no animation frame.
C24_Witness ==
    /\ variant = "full"
    /\ canvas = "broken"
    /\ appState = "SUCCESS"
    /\ decision = Accepted
    /\ savedFrames = 1
    /\ snapshot = "none"
    /\ srcObject = "stream"
    /\ rafCallbacks = 0
    /\ currentTime = lastVideoTime

\* The outcome the first face alone calls for.
FirstFaceOutcome(face) ==
    IF hasROI /\ ~isFaceInROI(face) THEN "OutOfRegion"
    ELSE IF face.score > CONFIG.minScore /\ isFacingForward(face.keypoints)
    THEN "Counted"
    ELSE "Invalid"

\* C25: when the detector reports several faces the outcome of the frame and
\* the counter depend on detections[0] alone: a qualifying second face does
\* not advance the counter when the first is disqualifying, and a
\* disqualifying second face does not reset it when the first qualifies.
C25_FirstFaceOnly ==
    Len(detections) >= 1 =>
        LET outcome == FirstFaceOutcome(detections[1])
        IN  /\ outcome = "Counted" <=> Counted
            /\ outcome = "Counted" => consecutiveFramesCounter > 0
            /\ outcome = "OutOfRegion" <=> decision = OutOfRegion
            /\ outcome = "Invalid" <=> decision = Invalid
            /\ outcome # "Counted" => consecutiveFramesCounter = 0
            /\ appState = "DETECTING" => consecutiveFramesCounter = run

\* A turned first face with a qualifying second face reset a counter that
\* was positive.
C25_Witness ==
    /\ Len(detections) = 2
    /\ FirstFaceOutcome(detections[1]) = "Invalid"
    /\ Qualifies(<<detections[2]>>)
    /\ decision = Invalid
    /\ consecutiveFramesCounter = 0
    /\ WasValidating

\* C26: every element tracked in detectionChildren is a child of liveView
\* (once each) whenever clearDetections runs, so removeChild does not throw
\* and no evaluation is aborted by it; detectionChildren is empty right after
\* clearDetections; after acceptance no detection overlay is tracked.
C26_TrackedOverlaysAreChildren ==
    /\ Range(detectionChildren) \subseteq Range(liveView)
    /\ Cardinality(Range(detectionChildren)) = Len(detectionChildren)
    /\ ~afterClear.thrown
    /\ afterClear.detectionChildren = <<>>
    /\ Range(detectionChildren) \cap Range(afterClear.liveView) = {}
    /\ decision.kind # "Thrown"
    /\ appState = "SUCCESS" => detectionChildren = <<>>

\* A progressing frame right after an Invalid one: the overlays of the Invalid
\* frame were removed, those of the latest frame (its box, its text and its
\* keypoint markers) are the ones tracked.
C26_Witness ==
    /\ decision.kind = "Validating"
    /\ Len(recent) >= 2
    /\ recent[Len(recent) - 1].kind = "Invalid"
    /\ Len(detectionChildren) > 2
    /\ \A el \in Range(detectionChildren) : el.frame = lastVideoTime
    /\ \E el \in Range(detectionChildren) : el.class = "key-point"

\* C27: in the copies without a ROI the status VALIDATED is never selected:
\* after the increment the counter is above 0, so a progressing frame shows
\* VALIDATING and an accepted frame shows no status.
C27_ValidatedNeverShown ==
    variant = "none" =>
        /\ currentStatus # "VALIDATED"
        /\ decision.kind = "Validating" =>
               /\ consecutiveFramesCounter > 0
               /\ currentStatus = "VALIDATING"
        /\ decision = Accepted => currentStatus = "NONE"

\* A progressing frame of a copy without a ROI: the counter test was taken
\* and chose VALIDATING.
C27_Witness ==
    /\ variant = "none"
    /\ decision.kind = "Validating"
    /\ consecutiveFramesCounter = 1
    /\ currentStatus = "VALIDATING"
    /\ Qualifies(detections)

\* C28: with showScore enabled the score suffix does not accumulate on the
\* shared STATUS.INVALID text: after any number of Invalid frames the text
\* carries exactly one ' (Score: n%)' suffix, that of the latest Invalid frame.
C28_OneScoreSuffix ==
    CONFIG.showScore =>
        /\ Cardinality({i \in 1 .. Len(invalidText) :
                           invalidText[i].t = "Score:"}) <= 1
        /\ \/ invalidText = STATUS_INVALID
           \/ \E sc \in Scores : invalidText = STATUS_INVALID \o scoreSuffix(sc)
        /\ (\E i \in 1 .. Len(recent) : recent[i] = Invalid) =>
               invalidText # STATUS_INVALID
        /\ decision = Invalid =>
               invalidText = STATUS_INVALID \o scoreSuffix(detections[1].score)

\* Two Invalid frames in a row with showScore enabled, the later one turned
\* with a score of 95: the text carries the 95 of the later frame.
C28_Witness ==
    /\ CONFIG.showScore
    /\ Len(recent) >= 2
    /\ recent[Len(recent) - 1] = Invalid
    /\ decision = Invalid
    /\ detections[1].score = 95
    /\ invalidText = STATUS_INVALID \o scoreSuffix(95)

===========================================================================
